---- MODULE Spec2Model ----
(***************************************************************************)
(* Model of the Book-recommender front end: the paginated genre and book   *)
(* searches, the author search, the autocomplete panels and the book and   *)
(* author detail pages.                                                    *)
(*                                                                         *)
(* The browser runs one page at a time; `page` is the page that was        *)
(* loaded, i.e. which controller's DOMContentLoaded handler found its      *)
(* elements.  Every event handler runs to its first `await` (or to its     *)
(* end) as one step; a fetch in flight is a record in `inflight`, and its  *)
(* settlement resumes the suspended handler as one more step.              *)
(***************************************************************************)
EXTENDS Integers, Sequences, FiniteSets, TLC

VARIABLES
  page,            \* the page that is loaded
  selectedGenres,  \* genre controller: let selectedGenres = new Set()
  continueBtn,     \* #continueBtn: [disabled]
  offset,          \* the page controller's `let offset`
  currentQuery,    \* book controller: let currentQuery
  results,         \* children of #results (genre: out, book: resultsContainer)
  loadMoreBtn,     \* #loadMoreBtn: [hidden, display, disabled, loading]
  authorResults,   \* children of #authorResults
  inputValue,      \* .value of #authorInput / #bookTitleInput
  suggestions,     \* #authorSuggestions / #bookSuggestions: [items, display]
  timeoutId,       \* debounce closure: does timeoutId name a pending timer
  timers,          \* timers set by the debounced listener and not yet cleared or fired
  focused,         \* does the page's input have the focus
  inflight,        \* fetches issued and not yet settled
  reqCount,        \* history: number of fetches issued so far
  submitId,        \* history: id of the fetch of the latest submit (0: none)
  suggestId,       \* history: id of the latest suggestion fetch (0: none)
  received,        \* history: number of items received since the latest submit
  settled,         \* history: the search fetch settled last, and its outcome
  settledSuggest,  \* history: the suggestion fetch settled last, and its outcome
  detailEl,        \* detail pages: children of #book-detail / #author-detail
  recEl,           \* detail pages: children of #recommendations / #author-books
  burst,           \* history: input events since the debounce timer last fired
  event            \* history: the event whose handler ran last

vars == <<page, selectedGenres, continueBtn, offset, currentQuery, results,
          loadMoreBtn, authorResults, inputValue, suggestions, timeoutId,
          timers, focused, inflight, reqCount, submitId, suggestId, received,
          settled, settledSuggest, detailEl, recEl, burst, event>>

-----------------------------------------------------------------------------
(* Program constants and bounds *)

limit == 20
pageSize == 20
MinAuthorLen == 2
MinSuggestLen == 2
MaxRecs == 5

MaxRequests == 3
MaxSuggests == 2
MaxSubmits == 1
MaxItems == 2
MaxBurst == 2
MaxFetches == 2

Pages == {"genre1", "genre", "book", "author", "bookdetail", "authordetail"}
Genres == {"fantasy"}
GenrePair == {"fantasy", "history"}
PageLens == {0, 5, limit}

-----------------------------------------------------------------------------
(* DOM content *)

Msg(cls) == [cls |-> cls, key |-> <<>>]

Card(q, i) == [cls |-> "book-card", key |-> <<q, i>>]

\* the items of a response to (q, off) of length n, each rendered as one card
Page(q, off, n) == [i \in 1..n |-> Card(q, off + i - 1)]

Loading == <<Msg("loading")>>

Visible(b) == ~b.hidden /\ b.display # "none"

Clickable(b) == Visible(b) /\ ~b.disabled

Cards(out) == SelectSeq(out, LAMBDA e : e.cls = "book-card")

Has(out, cls) == \E i \in 1..Len(out) : out[i].cls = cls

-----------------------------------------------------------------------------
(* Network *)

Req(id, api, by, q, off) ==
  [id |-> id, api |-> api, by |-> by, q |-> q, off |-> off]

Outcomes == [type : {"ok"}, n : PageLens] \cup [type : {"http", "network"}, n : {0}]

SearchInflight == {r \in inflight : r.by # "suggest"}

Failed(oc) == oc.type \notin {"ok", "none"}

genreVars == <<selectedGenres, continueBtn>>
fieldVars == <<inputValue, suggestions, timeoutId, timers, focused, suggestId,
               settledSuggest, burst>>
detailVars == <<detailEl, recEl>>
otherVars == <<page, currentQuery, authorResults, detailVars>>

\* the event of kind t
Ev(t) == [type |-> t, item |-> <<>>, n |-> 0]

NoFetch == [r |-> Req(0, "none", "none", <<>>, 0), oc |-> [type |-> "none", n |-> 0]]

-----------------------------------------------------------------------------
(* Genre search, final variant *)

\* ToggleGenre that disables Find Books whenever the clicked genre was deselected
ToggleGenreLastClick(g) ==
  /\ page \in {"genre", "genre1"}
  /\ event' = Ev("genre")
  /\ selectedGenres' = IF g \in selectedGenres THEN selectedGenres \ {g}
                       ELSE selectedGenres \cup {g}
  /\ continueBtn' = [disabled |-> (g \in selectedGenres)]
  /\ UNCHANGED <<offset, results, loadMoreBtn, inflight, reqCount, submitId, received>>
  /\ UNCHANGED <<fieldVars, otherVars>>
  /\ UNCHANGED settled

ToggleGenre(g) ==
  /\ page \in {"genre", "genre1"}
  /\ event' = Ev("genre")
  /\ selectedGenres' = IF g \in selectedGenres THEN selectedGenres \ {g}
                       ELSE selectedGenres \cup {g}
  /\ continueBtn' = [disabled |-> (selectedGenres' = {})]
  /\ UNCHANGED <<offset, results, loadMoreBtn, inflight, reqCount, submitId, received>>
  /\ UNCHANGED <<fieldVars, otherVars>>
  /\ UNCHANGED settled

\* fetchBooks() up to its await: `off` and `out` are offset and #results as the
\* calling listener left them
GenreFetchBooks(off, out, by) ==
  /\ reqCount' = reqCount + 1
  /\ inflight' = inflight \cup {Req(reqCount', "genre_filter", by, selectedGenres, off)}
  /\ results' = IF off = 0 THEN Loading ELSE out

\* ContinueClick without `offset = 0; out.innerHTML = ""`
ContinueClickNoReset ==
  /\ page = "genre"
  /\ event' = Ev("continue")
  /\ ~continueBtn.disabled
  /\ reqCount < MaxRequests
  /\ loadMoreBtn' = [loadMoreBtn EXCEPT !.display = "none"]
  /\ GenreFetchBooks(offset, results, "submit")
  /\ submitId' = reqCount'
  /\ received' = 0
  /\ UNCHANGED <<offset, genreVars, fieldVars, otherVars>>
  /\ UNCHANGED settled

ContinueClick ==
  /\ page = "genre"
  /\ event' = Ev("continue")
  /\ ~continueBtn.disabled
  /\ reqCount < MaxRequests
  /\ offset' = 0
  /\ loadMoreBtn' = [loadMoreBtn EXCEPT !.display = "none"]
  /\ GenreFetchBooks(0, <<>>, "submit")
  /\ submitId' = reqCount'
  /\ received' = 0
  /\ UNCHANGED <<genreVars, fieldVars, otherVars>>
  /\ UNCHANGED settled

LoadMoreClick ==
  /\ page = "genre"
  /\ event' = Ev("more")
  /\ Clickable(loadMoreBtn)
  /\ reqCount < MaxRequests
  /\ loadMoreBtn' = [loadMoreBtn EXCEPT !.disabled = TRUE]
  /\ GenreFetchBooks(offset, results, "more")
  /\ UNCHANGED <<offset, submitId, received>>
  /\ UNCHANGED <<genreVars, fieldVars, otherVars>>
  /\ UNCHANGED settled

\* GenreRender with a catch block that never writes #results
GenreRenderKeep(r, oc) ==
  CASE oc.type # "ok" -> results
    [] offset = 0 /\ oc.n = 0 -> <<Msg("empty-message")>>
    [] OTHER -> (IF offset = 0 THEN <<>> ELSE results) \o Page(r.q, r.off, oc.n)

\* #results after fetchBooks() resumes: try body and catch
GenreRender(r, oc) ==
  CASE oc.type # "ok" /\ offset = 0 -> <<Msg("error-message")>>
    [] oc.type # "ok" -> results
    [] offset = 0 /\ oc.n = 0 -> <<Msg("empty-message")>>
    [] OTHER -> (IF offset = 0 THEN <<>> ELSE results) \o Page(r.q, r.off, oc.n)

GenreOffset(oc) ==
  IF oc.type = "ok" /\ ~(offset = 0 /\ oc.n = 0) THEN offset + oc.n ELSE offset

\* style.display of the load-more button after fetchBooks() resumes
GenreDisplay(oc) ==
  CASE oc.type # "ok" /\ offset = 0 -> loadMoreBtn.display
    [] oc.type # "ok" -> "none"
    [] offset = 0 /\ oc.n = 0 -> loadMoreBtn.display
    [] OTHER -> IF oc.n < limit THEN "none" ELSE "block"

Receive(oc) == IF oc.type = "ok" THEN received + oc.n ELSE received

\* GenreFetchDone with a catch block that calls fetchBooks() again
GenreFetchDoneRetry(r, oc) ==
  /\ page = "genre"
  /\ event' = Ev("response")
  /\ r \in inflight
  /\ r.api = "genre_filter"
  /\ reqCount' = IF Failed(oc) /\ reqCount < MaxRequests THEN reqCount + 1 ELSE reqCount
  /\ inflight' = (inflight \ {r}) \cup
       (IF reqCount' # reqCount THEN {Req(reqCount', r.api, r.by, r.q, r.off)} ELSE {})
  /\ results' = GenreRender(r, oc)
  /\ offset' = GenreOffset(oc)
  /\ loadMoreBtn' = [loadMoreBtn EXCEPT
                       !.display = GenreDisplay(oc),
                       !.disabled = IF r.by = "more" THEN FALSE ELSE @]
  /\ received' = Receive(oc)
  /\ UNCHANGED submitId
  /\ UNCHANGED <<genreVars, fieldVars, otherVars>>
  /\ settled' = [r |-> r, oc |-> oc]

GenreFetchDone(r, oc) ==
  /\ page = "genre"
  /\ event' = Ev("response")
  /\ r \in inflight
  /\ r.api = "genre_filter"
  /\ inflight' = inflight \ {r}
  /\ results' = GenreRender(r, oc)
  /\ offset' = GenreOffset(oc)
  /\ loadMoreBtn' = [loadMoreBtn EXCEPT
                       !.display = GenreDisplay(oc),
                       !.disabled = IF r.by = "more" THEN FALSE ELSE @]
  /\ received' = Receive(oc)
  /\ UNCHANGED <<reqCount, submitId>>
  /\ UNCHANGED <<genreVars, fieldVars, otherVars>>
  /\ settled' = [r |-> r, oc |-> oc]

-----------------------------------------------------------------------------
(* Genre search, first variant of results.js *)

ContinueClick1 ==
  /\ page = "genre1"
  /\ event' = Ev("continue")
  /\ ~continueBtn.disabled
  /\ reqCount < MaxRequests
  /\ offset' = 0
  /\ loadMoreBtn' = [loadMoreBtn EXCEPT !.hidden = TRUE]
  /\ GenreFetchBooks(0, <<>>, "submit")
  /\ submitId' = reqCount'
  /\ received' = 0
  /\ UNCHANGED <<genreVars, fieldVars, otherVars>>
  /\ UNCHANGED settled

LoadMoreClick1 ==
  /\ page = "genre1"
  /\ event' = Ev("more")
  /\ Clickable(loadMoreBtn)
  /\ reqCount < MaxRequests
  /\ GenreFetchBooks(offset, results, "more")
  /\ UNCHANGED <<offset, loadMoreBtn, submitId, received>>
  /\ UNCHANGED <<genreVars, fieldVars, otherVars>>
  /\ UNCHANGED settled

\* the hidden attribute of the load-more button after fetchBooks() resumes
GenreHidden1(oc) ==
  CASE oc.type # "ok" /\ offset = 0 -> loadMoreBtn.hidden
    [] oc.type # "ok" -> TRUE
    [] offset = 0 /\ oc.n = 0 -> loadMoreBtn.hidden
    [] OTHER -> oc.n < limit

GenreFetchDone1(r, oc) ==
  /\ page = "genre1"
  /\ event' = Ev("response")
  /\ r \in inflight
  /\ r.api = "genre_filter"
  /\ inflight' = inflight \ {r}
  /\ results' = GenreRender(r, oc)
  /\ offset' = GenreOffset(oc)
  /\ loadMoreBtn' = [loadMoreBtn EXCEPT !.hidden = GenreHidden1(oc)]
  /\ received' = Receive(oc)
  /\ UNCHANGED <<reqCount, submitId>>
  /\ UNCHANGED <<genreVars, fieldVars, otherVars>>
  /\ settled' = [r |-> r, oc |-> oc]

-----------------------------------------------------------------------------
(* Text inputs *)

RECURSIVE TrimStart(_)
TrimStart(s) == IF s # <<>> /\ Head(s) = " " THEN TrimStart(Tail(s)) ELSE s

RECURSIVE TrimEnd(_)
TrimEnd(s) ==
  IF s # <<>> /\ s[Len(s)] = " " THEN TrimEnd(SubSeq(s, 1, Len(s) - 1)) ELSE s

\* String.prototype.trim
Trim(s) == TrimEnd(TrimStart(s))

Typed == {<<" ">>, <<"a">>, <<" ", "a", "b">>, <<"x", "y">>}
TypedFew == {<<>>, <<"a">>, <<" ", "a", "b">>}

searchVars == <<offset, currentQuery, results, loadMoreBtn, authorResults,
                inflight, reqCount, submitId, received, settled>>

-----------------------------------------------------------------------------
(* Book search *)

\* fetchBooks(reset) up to its await; `value` is bookInput.value
\* BookFetchBooks with the URL built from the input's present value
BookFetchBooksTitle(reset, value) ==
  LET title == Trim(value) IN
  IF title = <<>> THEN UNCHANGED searchVars
  ELSE /\ reqCount < MaxRequests
       /\ reqCount' = reqCount + 1
       /\ offset' = IF reset THEN 0 ELSE offset
       /\ currentQuery' = IF reset THEN title ELSE currentQuery
       /\ results' = IF reset THEN Loading ELSE results
       /\ loadMoreBtn' = IF reset
                         THEN [loadMoreBtn EXCEPT !.display = "none", !.disabled = TRUE]
                         ELSE [loadMoreBtn EXCEPT !.disabled = TRUE, !.loading = TRUE]
       /\ inflight' = inflight \cup
            {Req(reqCount', "book", IF reset THEN "submit" ELSE "more", title, offset')}
       /\ submitId' = IF reset THEN reqCount' ELSE submitId
       /\ received' = IF reset THEN 0 ELSE received
       /\ UNCHANGED <<authorResults, settled>>

\* fetchBooks(reset) up to its await, called with the input's value
BookFetchBooks(reset, value) ==
  LET title == Trim(value) IN
  IF title = <<>> THEN UNCHANGED searchVars
  ELSE /\ reqCount < MaxRequests
       /\ reqCount' = reqCount + 1
       /\ offset' = IF reset THEN 0 ELSE offset
       /\ currentQuery' = IF reset THEN title ELSE currentQuery
       /\ results' = IF reset THEN Loading ELSE results
       /\ loadMoreBtn' = IF reset
                         THEN [loadMoreBtn EXCEPT !.display = "none", !.disabled = TRUE]
                         ELSE [loadMoreBtn EXCEPT !.disabled = TRUE, !.loading = TRUE]
       /\ inflight' = inflight \cup
            {Req(reqCount', "book", IF reset THEN "submit" ELSE "more", currentQuery', offset')}
       /\ submitId' = IF reset THEN reqCount' ELSE submitId
       /\ received' = IF reset THEN 0 ELSE received
       /\ UNCHANGED <<authorResults, settled>>

\* a click on #searchBtn: the book listener, then the document click listener
SearchClick ==
  /\ page = "book"
  /\ event' = Ev("search")
  /\ BookFetchBooks(TRUE, inputValue)
  /\ suggestions' = [suggestions EXCEPT !.display = "none"]
  /\ focused' = FALSE
  /\ UNCHANGED <<inputValue, timeoutId, timers, suggestId, settledSuggest, burst,
                 genreVars, page, detailVars>>

\* Enter in #bookTitleInput
SearchEnter ==
  /\ page = "book"
  /\ event' = Ev("enter")
  /\ focused
  /\ BookFetchBooks(TRUE, inputValue)
  /\ UNCHANGED <<fieldVars, genreVars, page, detailVars>>

BookLoadMoreClick ==
  /\ page = "book"
  /\ event' = Ev("more")
  /\ Clickable(loadMoreBtn)
  /\ BookFetchBooks(FALSE, inputValue)
  /\ suggestions' = [suggestions EXCEPT !.display = "none"]
  /\ focused' = FALSE
  /\ UNCHANGED <<inputValue, timeoutId, timers, suggestId, settledSuggest, burst,
                 genreVars, page, detailVars>>

\* #results after fetchBooks(reset) resumes: try body and catch
BookRender(r, oc) ==
  LET reset == r.by = "submit" IN
  CASE oc.type # "ok" -> <<Msg("error-message")>>
    [] reset /\ oc.n = 0 -> <<Msg("empty-message")>>
    [] OTHER -> (IF reset THEN <<>> ELSE results) \o Page(r.q, r.off, oc.n)
                \o (IF oc.n = pageSize THEN <<>> ELSE <<Msg("end-message")>>)

BookOffset(r, oc) ==
  IF oc.type = "ok" /\ ~(r.by = "submit" /\ oc.n = 0) THEN offset + oc.n ELSE offset

BookDisplay(r, oc) ==
  CASE oc.type # "ok" -> "none"
    [] r.by = "submit" /\ oc.n = 0 -> loadMoreBtn.display
    [] OTHER -> IF oc.n = pageSize THEN "block" ELSE "none"

BookFetchDone(r, oc) ==
  /\ page = "book"
  /\ event' = Ev("response")
  /\ r \in inflight
  /\ r.api = "book"
  /\ inflight' = inflight \ {r}
  /\ results' = BookRender(r, oc)
  /\ offset' = BookOffset(r, oc)
  /\ loadMoreBtn' = [loadMoreBtn EXCEPT
                       !.display = BookDisplay(r, oc),
                       !.disabled = FALSE,
                       !.loading = FALSE]
  /\ received' = Receive(oc)
  /\ UNCHANGED <<reqCount, submitId, currentQuery, authorResults>>
  /\ UNCHANGED <<genreVars, fieldVars, page, detailVars>>
  /\ settled' = [r |-> r, oc |-> oc]

-----------------------------------------------------------------------------
(* Book page with results.js as a whole: the older book controller         *)
(* (performSearch) registers its listeners on #searchBtn and on the input   *)
(* before the paginated controller (fetchBooks) registers its own.          *)

\* the listeners of one click or Enter in their order of registration:
\* performSearch() up to its await, then fetchBooks(true) up to its await
PerformSearchThenFetchBooks(value) ==
  LET title == Trim(value) IN
  IF title = <<>>
  THEN /\ results' = <<Msg("error-message")>>
       /\ UNCHANGED <<offset, currentQuery, loadMoreBtn, authorResults,
                      inflight, reqCount, submitId, received, settled>>
  ELSE /\ reqCount + 1 < MaxRequests
       /\ reqCount' = reqCount + 2
       /\ offset' = 0
       /\ currentQuery' = title
       /\ results' = Loading
       /\ loadMoreBtn' = [loadMoreBtn EXCEPT !.display = "none", !.disabled = TRUE]
       /\ inflight' = inflight \cup
            {Req(reqCount + 1, "book", "perform", title, 0),
             Req(reqCount + 2, "book", "submit", title, 0)}
       /\ submitId' = reqCount'
       /\ received' = 0
       /\ UNCHANGED <<authorResults, settled>>

\* a click on #searchBtn: both book listeners, then the document click listener
SearchClickAll ==
  /\ page = "book"
  /\ event' = Ev("search")
  /\ PerformSearchThenFetchBooks(inputValue)
  /\ suggestions' = [suggestions EXCEPT !.display = "none"]
  /\ focused' = FALSE
  /\ UNCHANGED <<inputValue, timeoutId, timers, suggestId, settledSuggest, burst,
                 genreVars, page, detailVars>>

\* Enter in #bookTitleInput: both keydown listeners
SearchEnterAll ==
  /\ page = "book"
  /\ event' = Ev("enter")
  /\ focused
  /\ PerformSearchThenFetchBooks(inputValue)
  /\ UNCHANGED <<fieldVars, genreVars, page, detailVars>>

\* performSearch() resumes: try body and catch
PerformSearchDone(r, oc) ==
  /\ page = "book"
  /\ event' = Ev("response")
  /\ r \in inflight
  /\ r.by = "perform"
  /\ inflight' = inflight \ {r}
  /\ results' = CASE oc.type # "ok" -> <<Msg("error-message")>>
                  [] oc.n = 0 -> <<Msg("empty-message")>>
                  [] OTHER -> Page(r.q, 0, oc.n)
  /\ settled' = [r |-> r, oc |-> oc]
  /\ UNCHANGED <<offset, currentQuery, loadMoreBtn, authorResults, reqCount, submitId,
                 received, genreVars, fieldVars, page, detailVars>>

-----------------------------------------------------------------------------
(* Author search *)

ErrMsg(text) == [cls |-> "error-message", key |-> <<text>>]

AuthorOutcomes ==
  [type : {"ok"}, n : {0, 5}]
    \cup [type : {"http_detail", "http_nodetail", "http_nojson", "network"}, n : {0}]

\* err.message || "Unknown error occurred" for what the try block throws
AuthorErrText(oc) ==
  CASE oc.type = "http_detail" -> "detail"
    [] oc.type = "http_nodetail" -> "Server error"
    [] oc.type = "http_nojson" -> "SyntaxError"
    [] OTHER -> "Failed to fetch"

\* the #searchAuthorBtn click listener up to its await; `value` is authorInput.value
AuthorSearch(value) ==
  LET authorName == Trim(value) IN
  IF Len(authorName) < MinAuthorLen
  THEN /\ authorResults' = <<ErrMsg("Please enter at least 2 characters")>>
       /\ UNCHANGED <<offset, currentQuery, results, loadMoreBtn,
                      inflight, reqCount, submitId, received, settled>>
  ELSE /\ reqCount < MaxRequests
       /\ reqCount' = reqCount + 1
       /\ authorResults' = Loading
       /\ inflight' = inflight \cup {Req(reqCount', "author", "submit", authorName, 0)}
       /\ submitId' = reqCount'
       /\ UNCHANGED <<offset, currentQuery, results, loadMoreBtn, received, settled>>

\* a click on #searchAuthorBtn: the author listener, then the document click listener
AuthorSearchClick ==
  /\ page = "author"
  /\ event' = Ev("search")
  /\ AuthorSearch(inputValue)
  /\ suggestions' = [suggestions EXCEPT !.display = "none"]
  /\ focused' = FALSE
  /\ UNCHANGED <<inputValue, timeoutId, timers, suggestId, settledSuggest, burst,
                 genreVars, page, detailVars>>

AuthorRender(r, oc) ==
  CASE oc.type # "ok" -> <<ErrMsg(AuthorErrText(oc))>>
    [] oc.n = 0 -> <<Msg("empty-message")>>
    [] OTHER -> <<[cls |-> "authors-grid", key |-> <<r.q, oc.n>>]>>

\* AuthorFetchDone of a controller that renders into #results
AuthorFetchDoneShared(r, oc) ==
  /\ page = "author"
  /\ event' = Ev("response")
  /\ r \in inflight
  /\ r.api = "author"
  /\ inflight' = inflight \ {r}
  /\ results' = AuthorRender(r, oc)
  /\ UNCHANGED <<offset, currentQuery, authorResults, loadMoreBtn, reqCount, submitId, received>>
  /\ UNCHANGED <<genreVars, fieldVars, page, detailVars>>
  /\ settled' = [r |-> r, oc |-> oc]

AuthorFetchDone(r, oc) ==
  /\ page = "author"
  /\ event' = Ev("response")
  /\ r \in inflight
  /\ r.api = "author"
  /\ inflight' = inflight \ {r}
  /\ authorResults' = AuthorRender(r, oc)
  /\ UNCHANGED <<offset, currentQuery, results, loadMoreBtn, reqCount, submitId, received>>
  /\ UNCHANGED <<genreVars, fieldVars, page, detailVars>>
  /\ settled' = [r |-> r, oc |-> oc]

-----------------------------------------------------------------------------
(* Autocomplete of the page's input (author page: authorInput, book page:  *)
(* bookTitleInput)                                                         *)

HasField == page \in {"author", "book"}

\* the control group whose elements the page holds
Group(p) ==
  CASE p \in {"genre", "genre1"} -> "genre"
    [] p = "author" -> "author"
    [] p = "book" -> "book"
    [] OTHER -> "detail"

SuggestApi == IF page = "author" THEN "author_suggest" ELSE "book_suggest"

Quote == "\""

SuggestLists ==
  {<<>>, << <<"a", "b">> >>, << <<"x", Quote, "y">>, <<"a", "b">> >>}

SuggestOutcomes ==
  [type : {"ok"}, items : SuggestLists] \cup [type : {"http", "network"}, items : {<<>>}]

\* what item.dataset.name / item.dataset.title reads back from the markup
\* data-name="${name}": the attribute value ends at the first double quote
RECURSIVE DataAttr(_)
DataAttr(s) ==
  IF s = <<>> \/ Head(s) = Quote THEN <<>> ELSE <<Head(s)>> \o DataAttr(Tail(s))

\* fetchAuthorSuggestions(query) / fetchBookSuggestions(query) up to the await
FetchSuggestions(query) ==
  IF Len(query) < MinSuggestLen
  THEN /\ suggestions' = [suggestions EXCEPT !.display = "none"]
       /\ UNCHANGED <<inflight, suggestId>>
  ELSE /\ suggestId < MaxSuggests
       /\ suggestId' = suggestId + 1
       /\ inflight' = inflight \cup {Req(suggestId', SuggestApi, "suggest", query, 0)}
       /\ UNCHANGED suggestions

\* clearTimeout(timeoutId): the timers pending afterwards
ClearTimeout == IF timeoutId THEN timers - 1 ELSE timers

\* TypeInput with a debounce that sets a timer and clears none
TypeInputNoClear(v) ==
  /\ HasField
  /\ focused
  /\ v # inputValue
  /\ timers < MaxBurst
  /\ event' = Ev("input")
  /\ inputValue' = v
  /\ timers' = timers + 1
  /\ timeoutId' = TRUE
  /\ burst' = IF burst < MaxBurst THEN burst + 1 ELSE burst
  /\ UNCHANGED <<suggestions, focused, suggestId, settledSuggest, searchVars,
                 genreVars, page, detailVars>>

\* an input event: the debounced listener restarts its timer
TypeInput(v) ==
  /\ HasField
  /\ focused
  /\ v # inputValue
  /\ event' = Ev("input")
  /\ inputValue' = v
  /\ timers' = ClearTimeout + 1
  /\ timeoutId' = TRUE
  /\ burst' = IF burst < MaxBurst THEN burst + 1 ELSE burst
  /\ UNCHANGED <<suggestions, focused, suggestId, settledSuggest, searchVars,
                 genreVars, page, detailVars>>

\* a timer of the debounce closure fires: the oldest one pending, so that
\* timeoutId names a pending timer as long as one is left
DebounceFire ==
  /\ HasField
  /\ timers > 0
  /\ event' = [Ev("timer") EXCEPT !.n = burst]
  /\ timers' = timers - 1
  /\ timeoutId' = (timers' > 0)
  /\ burst' = 0
  /\ FetchSuggestions(Trim(inputValue))
  /\ UNCHANGED <<inputValue, focused, settledSuggest, genreVars, page, detailVars>>
  /\ UNCHANGED <<offset, currentQuery, results, loadMoreBtn, authorResults,
                 reqCount, submitId, received>>
  /\ UNCHANGED settled

\* the input gets the focus (by the keyboard, or as a click in it begins):
\* the focus listener of the input
InputFocus ==
  /\ HasField
  /\ ~focused
  /\ event' = Ev("focus")
  /\ focused' = TRUE
  /\ IF Len(Trim(inputValue)) >= MinSuggestLen
     THEN FetchSuggestions(Trim(inputValue))
     ELSE UNCHANGED <<suggestions, inflight, suggestId>>
  /\ UNCHANGED <<inputValue, timeoutId, timers, settledSuggest, burst, genreVars, page, detailVars>>
  /\ UNCHANGED <<offset, currentQuery, results, loadMoreBtn, authorResults,
                 reqCount, submitId, received>>
  /\ UNCHANGED settled

\* the input loses the focus without a click (Tab): no listener is registered
InputBlur ==
  /\ HasField
  /\ focused
  /\ event' = Ev("blur")
  /\ focused' = FALSE
  /\ UNCHANGED <<inputValue, suggestions, timeoutId, timers, suggestId,
                 settledSuggest, burst, searchVars, genreVars, page, detailVars>>

\* DisplaySuggestions with `innerHTML +=`: the panel keeps its earlier items
DisplaySuggestionsAppend(items) ==
  IF items = <<>> THEN [suggestions EXCEPT !.display = "none"]
  ELSE [items |-> suggestions.items \o items, display |-> "block"]

\* displayAuthorSuggestions / displayBookSuggestions
DisplaySuggestions(items) ==
  IF items = <<>> THEN [suggestions EXCEPT !.display = "none"]
  ELSE [items |-> items, display |-> "block"]

\* SuggestDone with a failure path that hides the panel
SuggestDoneHide(r, oc) ==
  /\ HasField
  /\ r \in inflight
  /\ r.by = "suggest"
  /\ event' = Ev("response")
  /\ inflight' = inflight \ {r}
  /\ suggestions' = IF oc.type = "ok" THEN DisplaySuggestions(oc.items)
                    ELSE [suggestions EXCEPT !.display = "none"]
  /\ settledSuggest' = [id |-> r.id, oc |-> oc]
  /\ UNCHANGED <<inputValue, timeoutId, timers, focused, suggestId, burst, genreVars, page, detailVars>>
  /\ UNCHANGED <<offset, currentQuery, results, loadMoreBtn, authorResults,
                 reqCount, submitId, received>>
  /\ UNCHANGED settled

SuggestDone(r, oc) ==
  /\ HasField
  /\ r \in inflight
  /\ r.by = "suggest"
  /\ event' = Ev("response")
  /\ inflight' = inflight \ {r}
  /\ suggestions' = IF oc.type = "ok" THEN DisplaySuggestions(oc.items) ELSE suggestions
  /\ settledSuggest' = [id |-> r.id, oc |-> oc]
  /\ UNCHANGED <<inputValue, timeoutId, timers, focused, suggestId, burst, genreVars, page, detailVars>>
  /\ UNCHANGED <<offset, currentQuery, results, loadMoreBtn, authorResults,
                 reqCount, submitId, received>>
  /\ UNCHANGED settled

\* a click on the i-th .suggestion-item, which clicks the page's search button
SuggestionClick(i) ==
  /\ HasField
  /\ suggestions.display = "block"
  /\ i \in 1..Len(suggestions.items)
  /\ event' = [Ev("suggestion") EXCEPT !.item = suggestions.items[i]]
  /\ focused' = FALSE
  /\ inputValue' = DataAttr(suggestions.items[i])
  /\ suggestions' = [suggestions EXCEPT !.display = "none"]
  /\ IF page = "book" THEN BookFetchBooks(TRUE, inputValue') ELSE AuthorSearch(inputValue')
  /\ UNCHANGED <<timeoutId, timers, suggestId, settledSuggest, burst, genreVars, page, detailVars>>

\* DocumentClick without the contains() tests
DocumentClickAll(target) == [suggestions EXCEPT !.display = "none"]

\* the document click listener for a click on `target`
DocumentClick(target) ==
  IF target \in {"input", "panel"} THEN suggestions
  ELSE [suggestions EXCEPT !.display = "none"]

\* a click outside the input and the panel
OutsideClick ==
  /\ HasField
  /\ event' = Ev("outside")
  /\ focused' = FALSE
  /\ suggestions' = DocumentClick("outside")
  /\ UNCHANGED <<inputValue, timeoutId, timers, suggestId, settledSuggest, burst,
                 searchVars, genreVars, page, detailVars>>

\* a click in the input, which has the focus by then
InputClick ==
  /\ HasField
  /\ focused
  /\ event' = Ev("inside")
  /\ suggestions' = DocumentClick("input")
  /\ UNCHANGED <<inputValue, timeoutId, timers, focused, suggestId, settledSuggest,
                 burst, searchVars, genreVars, page, detailVars>>

\* a click in the visible panel that hits no suggestion item
PanelClick ==
  /\ HasField
  /\ suggestions.display = "block"
  /\ event' = Ev("panel")
  /\ focused' = FALSE
  /\ suggestions' = DocumentClick("panel")
  /\ UNCHANGED <<inputValue, timeoutId, timers, suggestId, settledSuggest, burst,
                 searchVars, genreVars, page, detailVars>>

-----------------------------------------------------------------------------

(* Book detail page *)

\* the numbers of recommendations a response may hold: limit=5 is asked for
RecLens == {0, 3, 5, 6}

DetailOutcomes == [type : {"ok"}, n : RecLens] \cup [type : {"http", "network"}, n : {0}]

RecCard(i) == [cls |-> "recommendation-card", key |-> <<i>>]

\* the DOMContentLoaded listener of the book detail page up to its await
BookDetailLoad ==
  /\ page = "bookdetail"
  /\ reqCount = 0
  /\ event' = Ev("load")
  /\ detailEl' = Loading
  /\ recEl' = Loading
  /\ reqCount' = 1
  /\ inflight' = {Req(1, "book_detail", "load", <<>>, 0)}
  /\ UNCHANGED <<offset, currentQuery, results, loadMoreBtn, authorResults, submitId,
                 received, settled, genreVars, fieldVars, page>>

\* the listener resumes: try body and catch
BookDetailDone(r, oc) ==
  /\ page = "bookdetail"
  /\ r \in inflight
  /\ r.api = "book_detail"
  /\ event' = Ev("response")
  /\ inflight' = inflight \ {r}
  /\ detailEl' = IF oc.type = "ok" THEN <<Msg("book-title")>> ELSE <<Msg("error")>>
  /\ recEl' = CASE oc.type # "ok" -> <<>>
                [] oc.n = 0 -> <<Msg("no-recommendations")>>
                [] OTHER -> [i \in 1..oc.n |-> RecCard(i)]
  /\ settled' = [r |-> r, oc |-> oc]
  /\ UNCHANGED <<offset, currentQuery, results, loadMoreBtn, authorResults, reqCount,
                 submitId, received, genreVars, fieldVars, page>>

-----------------------------------------------------------------------------
(* Author detail page *)

BookCard(i) == [cls |-> "book-card", key |-> <<i>>]

\* the DOMContentLoaded listener of the author detail page up to its first await
AuthorDetailLoad ==
  /\ page = "authordetail"
  /\ reqCount = 0
  /\ event' = Ev("load")
  /\ detailEl' = Loading
  /\ recEl' = Loading
  /\ reqCount' = 1
  /\ inflight' = {Req(1, "author_detail", "load", <<>>, 0)}
  /\ UNCHANGED <<offset, currentQuery, results, loadMoreBtn, authorResults, submitId,
                 received, settled, genreVars, fieldVars, page>>

\* what the catch block leaves in the two panels
DetailFailure == [detail |-> <<Msg("error-message")>>, rec |-> <<>>]

\* AuthorWorksDone with a catch block that writes the books panel only
AuthorWorksDoneBooksOnly(r, oc) ==
  /\ page = "authordetail"
  /\ r \in inflight
  /\ r.api = "author_works"
  /\ event' = Ev("response")
  /\ inflight' = inflight \ {r}
  /\ detailEl' = detailEl
  /\ recEl' = CASE oc.type # "ok" -> <<Msg("error-message")>>
                [] oc.n = 0 -> <<Msg("empty-message")>>
                [] OTHER -> [i \in 1..oc.n |-> BookCard(i)]
  /\ settled' = [r |-> r, oc |-> oc]
  /\ UNCHANGED <<offset, currentQuery, results, loadMoreBtn, authorResults, reqCount,
                 submitId, received, genreVars, fieldVars, page>>

\* the listener resumes after /api/author/{authorKey}: the author panel and the
\* second fetch, or the catch block
AuthorDetailDone(r, oc) ==
  /\ page = "authordetail"
  /\ r \in inflight
  /\ r.api = "author_detail"
  /\ event' = Ev("response")
  /\ IF oc.type = "ok"
     THEN /\ detailEl' = <<Msg("author-header")>>
          /\ recEl' = recEl
          /\ reqCount' = reqCount + 1
          /\ inflight' = (inflight \ {r}) \cup {Req(reqCount', "author_works", "load", <<>>, 0)}
     ELSE /\ detailEl' = DetailFailure.detail
          /\ recEl' = DetailFailure.rec
          /\ reqCount' = reqCount
          /\ inflight' = inflight \ {r}
  /\ settled' = [r |-> r, oc |-> oc]
  /\ UNCHANGED <<offset, currentQuery, results, loadMoreBtn, authorResults,
                 submitId, received, genreVars, fieldVars, page>>

\* the listener resumes after /api/author/{authorKey}/works: the books panel,
\* or the catch block
AuthorWorksDone(r, oc) ==
  /\ page = "authordetail"
  /\ r \in inflight
  /\ r.api = "author_works"
  /\ event' = Ev("response")
  /\ inflight' = inflight \ {r}
  /\ detailEl' = IF oc.type = "ok" THEN detailEl ELSE DetailFailure.detail
  /\ recEl' = CASE oc.type # "ok" -> DetailFailure.rec
                [] oc.n = 0 -> <<Msg("empty-message")>>
                [] OTHER -> [i \in 1..oc.n |-> BookCard(i)]
  /\ settled' = [r |-> r, oc |-> oc]
  /\ UNCHANGED <<offset, currentQuery, results, loadMoreBtn, authorResults, reqCount,
                 submitId, received, genreVars, fieldVars, page>>

-----------------------------------------------------------------------------

InitButton(p) ==
  CASE p = "genre" -> {[hidden |-> FALSE, display |-> "none", disabled |-> FALSE, loading |-> FALSE]}
    [] p = "genre1" -> {[hidden |-> TRUE, display |-> "", disabled |-> FALSE, loading |-> FALSE]}
    [] p = "book" -> {[hidden |-> FALSE, display |-> "none", disabled |-> TRUE, loading |-> FALSE]}
    [] OTHER -> {[hidden |-> FALSE, display |-> "", disabled |-> FALSE, loading |-> FALSE]}

Init ==
  /\ page \in Pages
  /\ selectedGenres = {}
  /\ continueBtn = [disabled |-> TRUE]   \* Find Books starts disabled: no genre is selected
  /\ offset = 0
  /\ currentQuery = <<>>
  /\ results = <<>>
  /\ loadMoreBtn \in InitButton(page)
  /\ authorResults = <<>>
  /\ inputValue = <<>>
  /\ suggestions = [items |-> <<>>, display |-> "none"]
  /\ timeoutId = FALSE
  /\ timers = 0
  /\ focused \in (IF HasField THEN BOOLEAN ELSE {FALSE})   \* the input may be focused before a listener is registered
  /\ burst = 0
  /\ event = Ev("load")
  /\ inflight = {}
  /\ reqCount = 0
  /\ submitId = 0
  /\ suggestId = 0
  /\ received = 0
  /\ settled = NoFetch
  /\ settledSuggest = [id |-> 0, oc |-> [type |-> "none", items |-> <<>>]]
  /\ detailEl = <<>>
  /\ recEl = <<>>

\* the primary searches of every page
Next ==
  \/ \E g \in Genres : ToggleGenre(g)
  \/ ContinueClick
  \/ LoadMoreClick
  \/ \E r \in inflight, oc \in Outcomes : GenreFetchDone(r, oc)
  \/ ContinueClick1
  \/ LoadMoreClick1
  \/ \E r \in inflight, oc \in Outcomes : GenreFetchDone1(r, oc)
  \/ \E v \in Typed \cup {<<>>} : TypeInput(v)
  \/ SearchClick
  \/ SearchEnter
  \/ BookLoadMoreClick
  \/ \E r \in inflight, oc \in Outcomes : BookFetchDone(r, oc)
  \/ AuthorSearchClick
  \/ \E r \in inflight, oc \in AuthorOutcomes : AuthorFetchDone(r, oc)
  \/ BookDetailLoad
  \/ \E r \in inflight, oc \in DetailOutcomes : BookDetailDone(r, oc)
  \/ AuthorDetailLoad
  \/ \E r \in inflight, oc \in DetailOutcomes : AuthorDetailDone(r, oc)
  \/ \E r \in inflight, oc \in DetailOutcomes : AuthorWorksDone(r, oc)

Spec == Init /\ [][Next]_vars

\* the first genre variant of results.js on its own
InitGenre1 == Init /\ page = "genre1"

NextGenre1 ==
  \/ \E g \in Genres : ToggleGenre(g)
  \/ ContinueClick1
  \/ LoadMoreClick1
  \/ \E r \in inflight, oc \in Outcomes : GenreFetchDone1(r, oc)

SpecGenre1 == InitGenre1 /\ [][NextGenre1]_vars

\* the autocomplete of the author and book pages, with the searches it starts
NextSuggest ==
  \/ \E v \in Typed \cup {<<>>} : TypeInput(v)
  \/ DebounceFire
  \/ InputFocus
  \/ InputBlur
  \/ InputClick
  \/ PanelClick
  \/ \E r \in inflight, oc \in SuggestOutcomes : SuggestDone(r, oc)
  \/ \E i \in 1..MaxItems : reqCount < MaxSubmits /\ SuggestionClick(i)
  \/ OutsideClick
  \/ reqCount < MaxSubmits /\ SearchClick
  \/ reqCount < MaxSubmits /\ AuthorSearchClick
  \/ \E r \in inflight, oc \in Outcomes : BookFetchDone(r, oc)
  \/ \E r \in inflight, oc \in AuthorOutcomes : AuthorFetchDone(r, oc)

InitSuggest == Init /\ page \in {"author", "book"}

SpecSuggest == InitSuggest /\ [][NextSuggest]_vars

\* the autocomplete panel alone: a search a suggestion click submits stays in flight
NextPanel ==
  \/ \E v \in Typed \cup {<<>>} : TypeInput(v)
  \/ DebounceFire
  \/ InputFocus
  \/ InputBlur
  \/ InputClick
  \/ PanelClick
  \/ \E r \in inflight, oc \in SuggestOutcomes : SuggestDone(r, oc)
  \/ \E i \in 1..MaxItems : reqCount < MaxSubmits /\ SuggestionClick(i)
  \/ OutsideClick

SpecPanel == InitSuggest /\ [][NextPanel]_vars

\* every page with all its listeners, within a budget of MaxFetches fetches
Budget == reqCount + suggestId < MaxFetches

NextAll ==
  \/ \E g \in GenrePair : ToggleGenre(g)
  \/ Budget /\ ContinueClick
  \/ Budget /\ LoadMoreClick
  \/ \E r \in inflight, oc \in Outcomes : GenreFetchDone(r, oc)
  \/ Budget /\ ContinueClick1
  \/ Budget /\ LoadMoreClick1
  \/ \E r \in inflight, oc \in Outcomes : GenreFetchDone1(r, oc)
  \/ \E v \in TypedFew : TypeInput(v)
  \/ Budget /\ SearchClick
  \/ Budget /\ SearchEnter
  \/ Budget /\ BookLoadMoreClick
  \/ \E r \in inflight, oc \in Outcomes : BookFetchDone(r, oc)
  \/ Budget /\ AuthorSearchClick
  \/ \E r \in inflight, oc \in AuthorOutcomes : AuthorFetchDone(r, oc)
  \/ BookDetailLoad
  \/ \E r \in inflight, oc \in DetailOutcomes : BookDetailDone(r, oc)
  \/ AuthorDetailLoad
  \/ \E r \in inflight, oc \in DetailOutcomes : AuthorDetailDone(r, oc)
  \/ \E r \in inflight, oc \in DetailOutcomes : AuthorWorksDone(r, oc)
  \/ Budget /\ DebounceFire
  \/ Budget /\ InputFocus
  \/ InputBlur
  \/ InputClick
  \/ PanelClick
  \/ OutsideClick
  \/ \E r \in inflight, oc \in SuggestOutcomes : SuggestDone(r, oc)
  \/ \E i \in 1..MaxItems : Budget /\ SuggestionClick(i)

SpecAll == Init /\ [][NextAll]_vars

\* the author page with all its listeners, within MaxRequests fetches
InitAuthor == Init /\ page = "author"

AuthorBudget == reqCount + suggestId < MaxRequests

NextAuthor ==
  \/ \E v \in Typed \cup {<<>>} : TypeInput(v)
  \/ AuthorBudget /\ DebounceFire
  \/ AuthorBudget /\ InputFocus
  \/ InputBlur
  \/ InputClick
  \/ PanelClick
  \/ OutsideClick
  \/ \E r \in inflight, oc \in SuggestOutcomes : SuggestDone(r, oc)
  \/ \E i \in 1..MaxItems : AuthorBudget /\ SuggestionClick(i)
  \/ AuthorBudget /\ AuthorSearchClick
  \/ \E r \in inflight, oc \in AuthorOutcomes : AuthorFetchDone(r, oc)

SpecAuthor == InitAuthor /\ [][NextAuthor]_vars

\* the book page with every listener results.js registers for the search
InitResults == Init /\ page = "book"

NextResults ==
  \/ \E v \in Typed \cup {<<>>} : TypeInput(v)
  \/ SearchClickAll
  \/ SearchEnterAll
  \/ BookLoadMoreClick
  \/ \E r \in inflight, oc \in Outcomes : r.by # "perform" /\ BookFetchDone(r, oc)
  \/ \E r \in inflight, oc \in Outcomes : PerformSearchDone(r, oc)

SpecResults == InitResults /\ [][NextResults]_vars

\* a request in flight settles, in any outcome
Settle ==
  \/ \E r \in inflight, oc \in Outcomes : GenreFetchDone(r, oc)
  \/ \E r \in inflight, oc \in Outcomes : GenreFetchDone1(r, oc)
  \/ \E r \in inflight, oc \in Outcomes : BookFetchDone(r, oc)
  \/ \E r \in inflight, oc \in AuthorOutcomes : AuthorFetchDone(r, oc)
  \/ \E r \in inflight, oc \in DetailOutcomes : BookDetailDone(r, oc)
  \/ \E r \in inflight, oc \in DetailOutcomes : AuthorDetailDone(r, oc)
  \/ \E r \in inflight, oc \in DetailOutcomes : AuthorWorksDone(r, oc)

\* the primary searches and detail pages within the budget of requests
NextLive ==
  \/ \E g \in GenrePair : ToggleGenre(g)
  \/ Budget /\ ContinueClick
  \/ Budget /\ LoadMoreClick
  \/ \E r \in inflight, oc \in Outcomes : GenreFetchDone(r, oc)
  \/ Budget /\ ContinueClick1
  \/ Budget /\ LoadMoreClick1
  \/ \E r \in inflight, oc \in Outcomes : GenreFetchDone1(r, oc)
  \/ \E v \in TypedFew : TypeInput(v)
  \/ Budget /\ SearchClick
  \/ Budget /\ SearchEnter
  \/ Budget /\ BookLoadMoreClick
  \/ \E r \in inflight, oc \in Outcomes : BookFetchDone(r, oc)
  \/ Budget /\ AuthorSearchClick
  \/ \E r \in inflight, oc \in AuthorOutcomes : AuthorFetchDone(r, oc)
  \/ BookDetailLoad
  \/ \E r \in inflight, oc \in DetailOutcomes : BookDetailDone(r, oc)
  \/ AuthorDetailLoad
  \/ \E r \in inflight, oc \in DetailOutcomes : AuthorDetailDone(r, oc)
  \/ \E r \in inflight, oc \in DetailOutcomes : AuthorWorksDone(r, oc)

\* the same, every request eventually settling
SpecLive == Init /\ [][NextLive]_vars /\ WF_vars(Settle)

-----------------------------------------------------------------------------
(* Properties *)

\* the step settles fetch r
Done(r) == r \in inflight /\ r \notin inflight'

\* the step issues a fetch of kind `by`
Issued(by) == \E r \in inflight' \ inflight : r.by = by

NoDuplicates(out) ==
  \A i, j \in 1..Len(out) :
    (i # j /\ out[i].cls = "book-card" /\ out[j].cls = "book-card") => out[i] # out[j]

\* C1: in the paginated genre and book searches, the late response of a
\* request issued before the newest submit changes neither offset, nor the
\* rendered results, nor the load-more button.
C1_StaleResponseDiscarded ==
  [][\A r \in SearchInflight :
       (page \in {"genre", "book"} /\ Done(r) /\ r.id < submitId)
         => UNCHANGED <<offset, results, loadMoreBtn>>]_vars

\* C2: a suggestion fetch that settles after a later-issued suggestion fetch
\* has settled successfully leaves the suggestion panel as it is.
C2_StaleSuggestionDiscarded ==
  [][\A r \in inflight :
       (/\ r.by = "suggest"
        /\ Done(r)
        /\ r.id < settledSuggest.id
        /\ settledSuggest.oc.type = "ok")
         => UNCHANGED suggestions]_vars

\* C3: after one submit followed only by load-more actions, the number of
\* rendered cards is the number of items received since that submit, and no
\* item is rendered twice.
C3_RenderedEqualsReceived ==
  (page \in {"genre1", "genre", "book"} /\ submitId = 1)
    => (Len(Cards(results)) = received /\ NoDuplicates(results))

\* C4: every submit of the genre and book searches sets offset to 0 and
\* leaves no rendered card in the result area, in the very step of the submit
\* and so before any item of the new results is rendered.
C4_SubmitResets ==
  [][(page \in {"genre1", "genre", "book"} /\ Issued("submit"))
       => (offset' = 0 /\ Cards(results') = <<>>)]_vars

\* C4 witness: a submit has just acted on a result area that held cards (a
\* load-more issued at a positive offset is still in flight).
C4_Witness ==
  /\ page \in {"genre", "book"}
  /\ offset = 0
  /\ results = Loading
  /\ \E r, m \in inflight :
       r.id = submitId /\ r.by = "submit" /\ m.by = "more" /\ m.off > 0 /\ m.id < r.id

\* C5: a load-more action issues a request only when no request of the same
\* search is in flight.
C5_LoadMoreOnlyWhenIdle ==
  [][(page \in {"genre1", "genre", "book"} /\ Issued("more"))
       => SearchInflight = {}]_vars

\* C6: when a load-more request fails, the load-more button is hidden and the
\* cards already rendered stay as they are.
C6_LoadMoreFailureKeepsCards ==
  [][\A r \in SearchInflight :
       (page \in {"genre", "book"} /\ Done(r) /\ r.by = "more" /\ Failed(settled'.oc))
         => (~Visible(loadMoreBtn') /\ Cards(results') = Cards(results))]_vars

\* the result area of the page's primary search
ResultArea == IF page = "author" THEN authorResults ELSE results

\* C7: when the first-page request of a primary search fails, the result
\* area becomes exactly one error message.
C7_FirstPageFailureShown ==
  [][\A r \in SearchInflight :
       (page \in {"genre", "author", "book"} /\ Done(r) /\ r.by = "submit"
          /\ Failed(settled'.oc))
         => (Len(ResultArea') = 1 /\ ResultArea'[1].cls = "error-message")]_vars

\* the step is a successful page result of n items
PageResult(n) ==
  \E r \in SearchInflight : Done(r) /\ settled'.oc.type = "ok" /\ settled'.oc.n = n

OffsetStep ==
  offset' # offset =>
    \/ Issued("submit") /\ offset' = 0
    \/ \E n \in PageLens : PageResult(n) /\ offset' = offset + n

HasMoreStep ==
  \A n \in PageLens :
    PageResult(n) => (offset' = offset + n /\ (Visible(loadMoreBtn') <=> n = pageSize))

\* C8: offset changes only by a submit, which sets it to 0, or by a
\* successful page result, which adds the number of items of the page; and
\* after a successful page result the load-more button is visible exactly if
\* the page held pageSize items.
C8_OffsetAndHasMore ==
  [][(page \in {"genre", "book"}) => (OffsetStep /\ HasMoreStep)]_vars

\* C9: a successful page result with at least one and fewer than pageSize
\* items leaves an end-of-results message in the result area and the
\* load-more button hidden.
C9_EndMessageShown ==
  [][\A r \in SearchInflight :
       (page \in {"genre", "book"} /\ Done(r) /\ settled'.oc.type = "ok"
          /\ settled'.oc.n > 0 /\ settled'.oc.n < pageSize)
         => (Has(results', "end-message") /\ ~Visible(loadMoreBtn'))]_vars

\* C10: when the first page of a primary search returns no item, the result
\* area holds the empty-state message and nothing else, and the load-more
\* button is hidden.
C10_EmptyFirstPage ==
  [][\A r \in SearchInflight :
       (page \in {"genre", "author", "book"} /\ Done(r) /\ r.by = "submit"
          /\ settled'.oc.type = "ok" /\ settled'.oc.n = 0)
         => (ResultArea' = <<Msg("empty-message")>>
             /\ (page # "author" => ~Visible(loadMoreBtn')))]_vars

-----------------------------------------------------------------------------
(* Autocomplete and validation *)

\* C11: when the input or the focus path runs with a trimmed query shorter
\* than 2 characters, no suggestion request is issued and the suggestion
\* panel is hidden afterwards.
C11_ShortQueryHidesPanel ==
  [][(event'.type \in {"timer", "focus"} /\ Len(Trim(inputValue')) < MinSuggestLen)
       => (~Issued("suggest") /\ suggestions'.display = "none")]_vars

\* an input event calls no suggestion fetch and leaves one timer pending,
\* however many input events came before it
InputStep == event'.type = "input" => (~Issued("suggest") /\ timers' = 1)

\* the firing timer leaves none pending and makes the one fetch call of the
\* burst, with the trimmed input value of that moment
TimerStep ==
  event'.type = "timer" =>
    /\ timers' = 0
    /\ IF Len(Trim(inputValue)) >= MinSuggestLen
       THEN \E r \in inflight' \ inflight : r.by = "suggest" /\ r.q = Trim(inputValue)
       ELSE ~Issued("suggest")

\* C12: input events are debounced: a burst of input events (no timer fires
\* between them) makes exactly one suggestion fetch call, made when the timer
\* fires after the last event of the burst, with the input value of that time.
C12_Debounce == [][InputStep /\ TimerStep]_vars

\* C12 witness: the timer has fired after a burst of at least two input
\* events, and the fetch it issued carries the value typed last.
C12_Witness ==
  /\ event.type = "timer"
  /\ event.n >= 2
  /\ \E r \in inflight : r.by = "suggest" /\ r.id = suggestId /\ r.q = Trim(inputValue)

\* the submits the step issues
SubmitsIssued == {r \in inflight' \ inflight : r.by = "submit"}

\* C13: a click on a suggestion sets the input to the suggestion's name or
\* title, hides the panel and issues exactly one search submit.
C13_SuggestionClick ==
  [][(event'.type = "suggestion")
       => (/\ inputValue' = event'.item
           /\ suggestions'.display = "none"
           /\ Cardinality(SubmitsIssued) = 1)]_vars

\* C14 as claimed: a focus-out or a click outside the input and the panel
\* hides the panel; a click in the input or in the panel leaves it as it is.
C14_FocusOutOrOutsideClickHides ==
  [][(event'.type \in {"blur", "outside"} => suggestions'.display = "none")
       /\ (event'.type \in {"inside", "panel"} => suggestions' = suggestions)]_vars

\* C14 amended: a click outside the input and the panel hides the panel; a
\* click in the input, a click in the panel that hits no suggestion, and a
\* focus-out without a click leave the panel as it is.
C14_OutsideClickHides ==
  [][(event'.type = "outside" => suggestions'.display = "none")
       /\ (event'.type \in {"inside", "panel", "blur"} => suggestions' = suggestions)]_vars

\* C14 witness: an outside click has hidden a panel that holds suggestions.
C14_Witness ==
  /\ event.type = "outside"
  /\ suggestions.items # <<>>
  /\ suggestions.display = "none"

\* C15: a suggestion fetch that fails (network failure or non-2xx response)
\* changes neither the panel's content nor its visibility, nor anything else
\* shown on the page.
C15_SuggestFailureSwallowed ==
  [][\A r \in inflight :
       (r.by = "suggest" /\ Done(r) /\ Failed(settledSuggest'.oc))
         => UNCHANGED <<suggestions, inputValue, results, authorResults, loadMoreBtn>>]_vars

\* C15 witness: a suggestion fetch has just failed while the panel was shown.
C15_Witness ==
  /\ event.type = "response"
  /\ reqCount = 0
  /\ Failed(settledSuggest.oc)
  /\ suggestions.display = "block"

\* is the value of the page's input too short to be searched for
TooShort(value) ==
  IF page = "author" THEN Len(Trim(value)) < MinAuthorLen ELSE Trim(value) = <<>>

Triggers == {"load", "continue", "more", "search", "enter", "focus", "suggestion", "timer"}

\* C17: nothing is retried automatically: a request is issued only by the
\* handler of a user's action (or by the debounce timer of an input event),
\* or, on the author detail page, by the step in which the page's first
\* request succeeded; a step in which a request fails issues none, and no
\* step that settles a request issues one to the same endpoint.
C17_NoAutomaticRetry ==
  [][(inflight' \ inflight # {})
       => IF inflight \subseteq inflight'
          THEN event'.type \in Triggers
          ELSE ~Failed(settled'.oc) /\ \A r \in inflight' \ inflight : r.api # settled'.r.api]_vars

\* C17 witness: a request failed, and the request then in flight to the same
\* endpoint was issued by a later click of the user.
C17_Witness ==
  /\ Failed(settled.oc)
  /\ event.type \in {"continue", "search"}
  /\ \E r \in inflight : r.id > settled.r.id /\ r.api = settled.r.api

\* C18: every genre button click leaves the Find Books button disabled
\* exactly if no genre is selected, and nothing else changes either of them.
C18_FindBooksDisabledIffNoGenre ==
  [][IF event'.type = "genre"
     THEN continueBtn'.disabled <=> (selectedGenres' = {})
     ELSE UNCHANGED <<selectedGenres, continueBtn>>]_vars

\* C18 witness: one of two selected genres has just been deselected and the
\* Find Books button is still enabled.
C18_Witness ==
  /\ event.type = "genre"
  /\ Cardinality(selectedGenres) = 1
  /\ ~continueBtn.disabled
  /\ \E r \in inflight : Cardinality(r.q) = 2

RecCards == SelectSeq(recEl, LAMBDA e : e.cls = "recommendation-card")

\* C20: the book detail page never shows more than 5 recommendation cards.
C20_AtMostFiveRecommendations == page = "bookdetail" => Len(RecCards) <= MaxRecs

DetailPages == {"bookdetail", "authordetail"}

\* the failure message of the page's detail panel
DetailError == IF page = "bookdetail" THEN Msg("error") ELSE Msg("error-message")

\* C21: on the book and author detail pages, the step in which any request
\* of the page fails (network failure or non-2xx) leaves the detail panel
\* showing exactly the failure message and the secondary panel empty, so
\* neither panel keeps its loading indicator.
C21_DetailErrorShown ==
  [][(page \in DetailPages /\ event'.type = "response" /\ Failed(settled'.oc))
       => (detailEl' = <<DetailError>> /\ recEl' = <<>>)]_vars

\* C21 witness: the author's details were loaded and shown, then the request
\* for the author's works failed.
C21_Witness ==
  /\ page = "authordetail"
  /\ settled.r.api = "author_works"
  /\ Failed(settled.oc)
  /\ inflight = {}
  /\ detailEl = <<DetailError>>

\* the genre criteria of the cards rendered in #results
RenderedCriteria == {results[i].key[1] : i \in {j \in 1..Len(results) : results[j].cls = "book-card"}}

\* C22: in the genre search a load-more request carries the genre criteria
\* of the submit that produced the cards rendered when it is issued, even if
\* genre buttons were toggled after that submit.
C22_LoadMoreSameCriteria ==
  [][\A r \in inflight' \ inflight :
       (page = "genre" /\ r.by = "more") => RenderedCriteria \subseteq {r.q}]_vars

\* C24: no genre_filter request is ever in flight with an empty list of
\* genres, whatever toggles, Find Books clicks and load-more clicks came
\* before it.
C24_NoEmptyGenreRequest ==
  page = "genre" => \A r \in inflight : r.api = "genre_filter" => r.q # {}

\* currentQuery is the trimmed title of the most recent submit: only a step
\* that issues a first-page request changes it
QueryCaptured ==
  /\ Issued("submit") => currentQuery' = Trim(inputValue')
  /\ currentQuery' # currentQuery => Issued("submit")

\* a load-more request carries currentQuery and offset as they are
MoreCarriesQuery ==
  \A r \in inflight' \ inflight :
    r.by = "more" => (r.q = currentQuery /\ r.off = offset /\ UNCHANGED <<currentQuery, offset>>)

\* a load-more click while the input is empty leaves the search as it is
MoreOnEmptyInput ==
  (event'.type = "more" /\ Trim(inputValue) = <<>>)
    => UNCHANGED <<offset, currentQuery, results, loadMoreBtn, inflight, reqCount>>

\* C23: in the book search every load-more request carries the query
\* captured at the most recent submit and the current offset, whatever the
\* input holds by then; a load-more click while the input is empty issues no
\* request and changes nothing of the search.
C23_LoadMoreUsesCapturedQuery ==
  [][(page = "book") => (QueryCaptured /\ MoreCarriesQuery /\ MoreOnEmptyInput)]_vars

\* C23 witness: a load-more request is in flight for the submitted title
\* while the input, edited since, holds another one.
C23_Witness ==
  /\ page = "book"
  /\ event.type = "more"
  /\ Trim(inputValue) \notin {<<>>, currentQuery}
  /\ \E r \in inflight : r.by = "more" /\ r.q = currentQuery /\ r.off = offset /\ offset > 0

\* C25: in the paginated searches, whenever the load-more button is visible
\* and no request of the search is in flight, offset is the number of result
\* cards rendered.
C25_OffsetIsCardCount ==
  (page \in {"genre", "book"} /\ Visible(loadMoreBtn) /\ SearchInflight = {})
    => offset = Len(Cards(results))

\* C26: while a first-page request issued by a submit is in flight, the
\* load-more button is hidden, in the genre and book searches, whatever
\* other responses have arrived.
C26_HiddenDuringFirstPage ==
  (\E r \in inflight : r.by = "submit" /\ r.api \in {"genre_filter", "book"})
    => ~Visible(loadMoreBtn)

\* the load-more button is disabled while a load-more request is in flight
MoreDisabled == (\E r \in inflight : r.by = "more") => loadMoreBtn.disabled

\* the step in which a load-more request settles, whatever its outcome,
\* leaves the button enabled
MoreReenabled == \A r \in inflight \ inflight' : r.by = "more" => ~loadMoreBtn'.disabled

\* C27: in the genre search (final variant) and the book search a load-more
\* click disables the button until its request settles, and the button is
\* enabled again once the request has settled, in every outcome.
C27_LoadMoreDisabledUntilSettled ==
  [][(page \in {"genre", "book"}) => (MoreDisabled' /\ MoreReenabled)]_vars

\* a result area or a detail panel shows its loading indicator
LoadingShown ==
  \/ Has(results, "loading")
  \/ Has(authorResults, "loading")
  \/ Has(detailEl, "loading")
  \/ Has(recEl, "loading")

\* C28: every request eventually settling, a primary search or detail page
\* that shows a loading indicator eventually shows none, and no result area
\* or panel shows one once no request is in flight.
C28_LeavesLoading ==
  /\ [](inflight = {} => ~LoadingShown)
  /\ LoadingShown ~> (inflight = {} /\ ~LoadingShown)

\* C28 witness: the last of several requests has failed, and nothing is
\* loading any more.
C28_Witness ==
  /\ inflight = {}
  /\ reqCount > 1
  /\ Failed(settled.oc)
  /\ ~LoadingShown

\* the author result area shows the result of the most recently submitted
\* name, whose response has arrived
ShowsNewest ==
  /\ page = "author"
  /\ settled.r.id = submitId
  /\ authorResults = AuthorRender(settled.r, settled.oc)

\* C29: in the author search, after two submits with different names, the
\* result area once both responses have arrived is the result of the name
\* submitted last, in whichever order they arrive: the late response of the
\* older request does not change the area.
C29_LastSubmitWins ==
  [][\A r \in inflight \ inflight' :
       (ShowsNewest /\ r.q # settled.r.q /\ inflight' = {})
         => authorResults' = authorResults]_vars

\* C30: a single user action (a Find Books click, a search click or Enter,
\* a load-more click) issues at most one request to its search endpoint,
\* with every listener that results.js registers.
C30_OneRequestPerAction ==
  [][(event'.type \in {"continue", "search", "enter", "more"})
       => Cardinality(inflight' \ inflight) <= 1]_vars

\* C31: the step in which a suggestion fetch succeeds replaces the panel's
\* list wholesale: after a non-empty response the panel is visible and holds
\* exactly the items of that response, in their order, and none of an
\* earlier response; after an empty response the panel is hidden.
C31_SuggestionsReplaced ==
  [][\A r \in inflight :
       (r.by = "suggest" /\ Done(r) /\ settledSuggest'.oc.type = "ok")
         => IF settledSuggest'.oc.items = <<>>
            THEN suggestions'.display = "none"
            ELSE suggestions' = [items |-> settledSuggest'.oc.items, display |-> "block"]]_vars

\* C31 witness: the page's second suggestion fetch has just succeeded with
\* one item, and the visible panel holds that one item.
C31_Witness ==
  /\ event.type = "response"
  /\ settledSuggest.id = 2
  /\ settledSuggest.oc.type = "ok"
  /\ Len(settledSuggest.oc.items) = 1
  /\ suggestions = [items |-> settledSuggest.oc.items, display |-> "block"]

====
